---- MODULE Spec2Model ----
(***************************************************************************)
(* The two command-line tool runners of degen-ai:                          *)
(*   supabase/functions/crewai-vision/vision_tool_runner.py                *)
(*   supabase/functions/crewai-web-scrape/scrape_tool_runner.py            *)
(* Each run of main() is a straight line of calls into crewai; every call  *)
(* into the library either returns or raises, and nothing in main()        *)
(* catches an exception.                                                   *)
(*                                                                         *)
(* A text (Python str) is a sequence of fragments.  Command-line arguments *)
(* and orchestration results are sequences of one-character fragments; a   *)
(* string literal of the source is one fragment holding the literal.       *)
(***************************************************************************)
EXTENDS Integers, Sequences, FiniteSets

VARIABLES
    variant,        \* which script runs: "vision" or "scrape"
    sys_argv,       \* sys.argv: <<script name, positional arguments...>>
    pc,             \* position in main()
    image_path,     \* local of vision main()
    url,            \* local of scrape main()
    css_selector,   \* local of scrape main()
    tool,           \* local vision_tool / scrape_tool: index in toolObjs, 0 unbound
    agent,          \* local agent: index in agentObjs, 0 unbound
    task,           \* local task: index in taskObjs, 0 unbound
    crew,           \* local crew: index in crewObjs, 0 unbound
    result,         \* local result, the value crew.kickoff() returned
    toolObjs,       \* every tool object constructed in this process, in order
    agentObjs,      \* every Agent constructed in this process
    taskObjs,       \* every Task constructed in this process
    crewObjs,       \* every Crew constructed in this process
    kickoffLog,     \* the crew (index in crewObjs) of every kickoff() call made
    stdout,         \* text written to standard output
    stderr,         \* text written to standard error
    exitCode,       \* process exit status, Running while main() runs
    raised,         \* the library call whose exception ended the run, NoCall if none
    prev_agent      \* role/goal/backstory of the Agent of an earlier process run

vars == <<variant, sys_argv, pc, image_path, url, css_selector, tool, agent,
          task, crew, result, toolObjs, agentObjs, taskObjs, crewObjs,
          kickoffLog, stdout, stderr, exitCode, raised, prev_agent>>

----------------------------------------------------------------------------
(* Bounds of the model *)

MaxArgLen == 1
MaxResLen == 2

(* Program constants *)

VisionArgc == 2
ScrapeArgc == 3

Variants == {"vision", "scrape"}

ArgChars == {"A", " "}
ResChars == {" ", "\n", "a"}

RECURSIVE TextsOfLen(_, _)
TextsOfLen(chars, n) ==
    IF n = 0 THEN {<<>>}
    ELSE {<<c>> \o t : c \in chars, t \in TextsOfLen(chars, n - 1)}

TextsUpTo(chars, n) == UNION {TextsOfLen(chars, k) : k \in 0..n}

ArgStrings == TextsUpTo(ArgChars, MaxArgLen)

\* Positional argument lists: every count below the larger required count
\* (too few for both scripts, enough for one, enough for both).
ArgLists == UNION {[1..k -> ArgStrings] : k \in 0..(ScrapeArgc - 1)}

HelloWorldResult ==
    <<" ", " ", "H", "e", "l", "l", "o", " ", "W", "o", "r", "l", "d", " ", " ", "\n">>

Results == TextsUpTo(ResChars, MaxResLen) \cup {HelloWorldResult}

Outcomes == {"returns", "raises"}

Running == -1
NoCall == "none"

ScriptName(v) ==
    IF v = "vision" THEN <<"vision_tool_runner.py">> ELSE <<"scrape_tool_runner.py">>

----------------------------------------------------------------------------
(* Python semantics used by main() *)

\* str.strip() with no argument removes these from both ends
Whitespace == {" ", "\t", "\n", "\r", "\f"}

RECURSIVE LStrip(_)
LStrip(s) ==
    IF s = <<>> THEN <<>>
    ELSE IF Head(s) \in Whitespace THEN LStrip(Tail(s)) ELSE s

RECURSIVE RStrip(_)
RStrip(s) ==
    IF s = <<>> THEN <<>>
    ELSE IF s[Len(s)] \in Whitespace THEN RStrip(SubSeq(s, 1, Len(s) - 1)) ELSE s

\* Faulty variant of Strip: lstrip() in place of strip().
Strip_LeftOnly(s) == LStrip(s)

Strip(s) == RStrip(LStrip(s))

\* print(x): the text and a line break on standard output
PyPrint(text) == stdout' = stdout \o text \o <<"\n">>

\* sys.exit(code)
SysExit(code) == exitCode' = code /\ pc' = "exit"

Traceback == <<"Traceback (most recent call last)">>

\* an exception leaves main() uncaught: traceback on stderr, exit status 1
Raise(call) ==
    /\ raised' = call
    /\ stderr' = stderr \o Traceback
    /\ exitCode' = 1
    /\ pc' = "exit"

\* main() returns: the interpreter exits with status 0
ReturnFromMain == exitCode' = 0 /\ pc' = "exit"

----------------------------------------------------------------------------
Init ==
    /\ variant \in Variants
    /\ sys_argv \in {ScriptName(variant) \o args : args \in ArgLists}
    /\ pc = "parse"
    /\ image_path = <<>>
    /\ url = <<>>
    /\ css_selector = <<>>
    /\ tool = 0
    /\ agent = 0
    /\ task = 0
    /\ crew = 0
    /\ result = <<>>
    /\ toolObjs = <<>>
    /\ agentObjs = <<>>
    /\ taskObjs = <<>>
    /\ crewObjs = <<>>
    /\ kickoffLog = <<>>
    /\ stdout = <<>>
    /\ stderr = <<>>
    /\ exitCode = Running
    /\ raised = NoCall
    /\ prev_agent = {}

----------------------------------------------------------------------------
(* The objects main() constructs, as the library's constructors receive them *)

\* VisionTool()
NewVisionTool == [cls |-> "VisionTool", kwargs |-> {}]

\* Faulty variant of NewScrapeTool: the arguments are trimmed before binding.
NewScrapeTool_Stripped(u, c) ==
    [cls |-> "ScrapeElementFromWebsiteTool",
     kwargs |-> {<<"website_url", Strip(u)>>, <<"css_element", Strip(c)>>}]

\* ScrapeElementFromWebsiteTool(website_url=url, css_element=css_selector)
NewScrapeTool(u, c) ==
    [cls |-> "ScrapeElementFromWebsiteTool",
     kwargs |-> {<<"website_url", u>>, <<"css_element", c>>}]

\* Agent(role=..., goal=..., backstory=..., tools=[vision_tool], verbose=False)
NewVisionAgent(t) ==
    [role |-> <<"OCR Agent">>,
     goal |-> <<"Extract text from images accurately">>,
     backstory |-> <<"Expert in reading and extracting text from image files using computer vision.">>,
     tools |-> <<t>>,
     verbose |-> FALSE]

\* Faulty variant of NewScrapeAgent: the backstory interpolates the url too.
NewScrapeAgent_BackstoryInterpolated(u, c, t) ==
    [role |-> <<"Web Extractor">>,
     goal |-> <<"Extract content from ">> \o u \o <<" using selector ">> \o c,
     backstory |-> <<"Expert at extracting specific elements from ">> \o u,
     tools |-> <<t>>,
     verbose |-> FALSE]

\* Agent(role=..., goal=f"...{url}...{css_selector}", backstory=..., tools=[scrape_tool], verbose=False)
NewScrapeAgent(u, c, t) ==
    [role |-> <<"Web Extractor">>,
     goal |-> <<"Extract content from ">> \o u \o <<" using selector ">> \o c,
     backstory |-> <<"Expert at extracting specific elements from websites using CSS selectors.">>,
     tools |-> <<t>>,
     verbose |-> FALSE]

\* Faulty variant of NewVisionTask: the description is a plain string, not an
\* f-string, and no context is passed.
NewVisionTask_StaticText(path, a) ==
    [description |-> <<"Extract all readable text from the image at '{image_path}'.">>,
     expected_output |-> <<"Text extracted from the image.">>,
     agent |-> a,
     context |-> {}]

\* Task(description=f"...'{image_path}'.", expected_output=..., agent=agent, context={...})
NewVisionTask(path, a) ==
    [description |-> <<"Extract all readable text from the image at '">> \o path \o <<"'.">>,
     expected_output |-> <<"Text extracted from the image.">>,
     agent |-> a,
     context |-> {<<"image_path_url", path>>}]

\* Task(description=f"...{url}...'{css_selector}'.", expected_output=..., agent=agent)
NewScrapeTask(u, c, a) ==
    [description |-> <<"Extract content from ">> \o u \o <<" using CSS selector '">> \o c \o <<"'.">>,
     expected_output |-> <<"Plain text content of the matching elements.">>,
     agent |-> a,
     context |-> {}]

\* Crew(agents=[agent], tasks=[task])
NewVisionCrew(a, t) == [agents |-> <<a>>, tasks |-> <<t>>]

\* Faulty variant of NewScrapeCrew: the agent is left out of the crew.
NewScrapeCrew_NoAgents(a, t) == [agents |-> <<>>, tasks |-> <<t>>]

\* Crew(agents=[agent], tasks=[task])
NewScrapeCrew(a, t) == [agents |-> <<a>>, tasks |-> <<t>>]

VisionUsage == <<"Usage: python vision_tool_runner.py <image_path_or_url>">>
ScrapeUsage == <<"Usage: python scrape_tool_runner.py <url> <css_selector>">>

locals == <<image_path, url, css_selector, tool, agent, task, crew, result>>
heap == <<toolObjs, agentObjs, taskObjs, crewObjs, kickoffLog>>
io == <<stdout, stderr, exitCode, raised>>
env == <<variant, sys_argv, prev_agent>>

----------------------------------------------------------------------------
(* vision_tool_runner.py: main() *)

\* lines 7-11: argument count check, usage and exit, or image_path = sys.argv[1]
VisionParse ==
    /\ variant = "vision" /\ pc = "parse"
    /\ \/ /\ Len(sys_argv) < VisionArgc
          /\ PyPrint(VisionUsage)
          /\ SysExit(1)
          /\ UNCHANGED <<locals, heap, env, stderr, raised>>
       \/ /\ ~(Len(sys_argv) < VisionArgc)
          /\ image_path' = sys_argv[2]
          /\ pc' = "bind"
          /\ UNCHANGED <<url, css_selector, tool, agent, task, crew, result,
                         heap, io, env>>

\* Faulty variant of VisionBind: the constructor's exception is caught and
\* the run goes on without a tool.
VisionBind_Swallow ==
    /\ variant = "vision" /\ pc = "bind"
    /\ \E outcome \in Outcomes :
          \/ /\ outcome = "returns"
             /\ toolObjs' = Append(toolObjs, NewVisionTool)
             /\ tool' = Len(toolObjs) + 1
             /\ pc' = "agent"
             /\ UNCHANGED <<image_path, url, css_selector, agent, task, crew, result,
                            agentObjs, taskObjs, crewObjs, kickoffLog, io, env>>
          \/ /\ outcome = "raises"
             /\ raised' = "VisionTool"
             /\ pc' = "agent"
             /\ UNCHANGED <<locals, heap, env, stdout, stderr, exitCode>>

\* line 12: vision_tool = VisionTool()
VisionBind ==
    /\ variant = "vision" /\ pc = "bind"
    /\ \E outcome \in Outcomes :
          \/ /\ outcome = "returns"
             /\ toolObjs' = Append(toolObjs, NewVisionTool)
             /\ tool' = Len(toolObjs) + 1
             /\ pc' = "agent"
             /\ UNCHANGED <<image_path, url, css_selector, agent, task, crew, result,
                            agentObjs, taskObjs, crewObjs, kickoffLog, io, env>>
          \/ /\ outcome = "raises"
             /\ Raise("VisionTool")
             /\ UNCHANGED <<locals, heap, env, stdout>>

\* lines 14-20: agent = Agent(...)
VisionAgent ==
    /\ variant = "vision" /\ pc = "agent"
    /\ \E outcome \in Outcomes :
          \/ /\ outcome = "returns"
             /\ agentObjs' = Append(agentObjs, NewVisionAgent(tool))
             /\ agent' = Len(agentObjs) + 1
             /\ pc' = "task"
             /\ UNCHANGED <<image_path, url, css_selector, tool, task, crew, result,
                            toolObjs, taskObjs, crewObjs, kickoffLog, io, env>>
          \/ /\ outcome = "raises"
             /\ Raise("Agent")
             /\ UNCHANGED <<locals, heap, env, stdout>>

\* lines 22-27: task = Task(...)
VisionTask ==
    /\ variant = "vision" /\ pc = "task"
    /\ \E outcome \in Outcomes :
          \/ /\ outcome = "returns"
             /\ taskObjs' = Append(taskObjs, NewVisionTask(image_path, agent))
             /\ task' = Len(taskObjs) + 1
             /\ pc' = "crew"
             /\ UNCHANGED <<image_path, url, css_selector, tool, agent, crew, result,
                            toolObjs, agentObjs, crewObjs, kickoffLog, io, env>>
          \/ /\ outcome = "raises"
             /\ Raise("Task")
             /\ UNCHANGED <<locals, heap, env, stdout>>

\* line 29: crew = Crew(agents=[agent], tasks=[task])
VisionCrew ==
    /\ variant = "vision" /\ pc = "crew"
    /\ \E outcome \in Outcomes :
          \/ /\ outcome = "returns"
             /\ crewObjs' = Append(crewObjs, NewVisionCrew(agent, task))
             /\ crew' = Len(crewObjs) + 1
             /\ pc' = "kickoff"
             /\ UNCHANGED <<image_path, url, css_selector, tool, agent, task, result,
                            toolObjs, agentObjs, taskObjs, kickoffLog, io, env>>
          \/ /\ outcome = "raises"
             /\ Raise("Crew")
             /\ UNCHANGED <<locals, heap, env, stdout>>

\* Faulty variant of VisionKickoff: a failed kickoff is tried once more
\* before the exception is let through.
VisionKickoff_Retry ==
    /\ variant = "vision" /\ pc = "kickoff"
    /\ \/ /\ kickoffLog' = Append(kickoffLog, crew)
          /\ \E r \in Results : result' = r
          /\ pc' = "print"
          /\ UNCHANGED <<image_path, url, css_selector, tool, agent, task, crew,
                         toolObjs, agentObjs, taskObjs, crewObjs, io, env>>
       \/ /\ kickoffLog' = Append(Append(kickoffLog, crew), crew)
          /\ Raise("kickoff")
          /\ UNCHANGED <<locals, toolObjs, agentObjs, taskObjs, crewObjs, env, stdout>>

\* line 30: result = crew.kickoff()
VisionKickoff ==
    /\ variant = "vision" /\ pc = "kickoff"
    /\ kickoffLog' = Append(kickoffLog, crew)
    /\ \/ /\ \E r \in Results : result' = r
          /\ pc' = "print"
          /\ UNCHANGED <<image_path, url, css_selector, tool, agent, task, crew,
                         toolObjs, agentObjs, taskObjs, crewObjs, io, env>>
       \/ /\ Raise("kickoff")
          /\ UNCHANGED <<locals, toolObjs, agentObjs, taskObjs, crewObjs, env, stdout>>

\* line 31: print(result.strip()), then main() returns
VisionPrint ==
    /\ variant = "vision" /\ pc = "print"
    /\ PyPrint(Strip(result))
    /\ ReturnFromMain
    /\ UNCHANGED <<locals, heap, env, stderr, raised>>

----------------------------------------------------------------------------
(* scrape_tool_runner.py: main() *)

\* Faulty variant of ScrapeParse: the count is checked against 2, as in the
\* vision script; with one argument sys.argv[2] raises IndexError.
ScrapeParse_OffByOne ==
    /\ variant = "scrape" /\ pc = "parse"
    /\ \/ /\ Len(sys_argv) < VisionArgc
          /\ PyPrint(ScrapeUsage)
          /\ SysExit(1)
          /\ UNCHANGED <<locals, heap, env, stderr, raised>>
       \/ /\ ~(Len(sys_argv) < VisionArgc)
          /\ Len(sys_argv) < ScrapeArgc
          /\ Raise("sys.argv[2]")
          /\ UNCHANGED <<locals, heap, env, stdout>>
       \/ /\ ~(Len(sys_argv) < ScrapeArgc)
          /\ url' = sys_argv[2]
          /\ css_selector' = sys_argv[3]
          /\ pc' = "bind"
          /\ UNCHANGED <<image_path, tool, agent, task, crew, result, heap, io, env>>

\* lines 7-12: argument count check, usage and exit, or url, css_selector = sys.argv[1], sys.argv[2]
ScrapeParse ==
    /\ variant = "scrape" /\ pc = "parse"
    /\ \/ /\ Len(sys_argv) < ScrapeArgc
          /\ PyPrint(ScrapeUsage)
          /\ SysExit(1)
          /\ UNCHANGED <<locals, heap, env, stderr, raised>>
       \/ /\ ~(Len(sys_argv) < ScrapeArgc)
          /\ url' = sys_argv[2]
          /\ css_selector' = sys_argv[3]
          /\ pc' = "bind"
          /\ UNCHANGED <<image_path, tool, agent, task, crew, result, heap, io, env>>

\* lines 14-17: scrape_tool = ScrapeElementFromWebsiteTool(website_url=url, css_element=css_selector)
ScrapeBind ==
    /\ variant = "scrape" /\ pc = "bind"
    /\ \E outcome \in Outcomes :
          \/ /\ outcome = "returns"
             /\ toolObjs' = Append(toolObjs, NewScrapeTool(url, css_selector))
             /\ tool' = Len(toolObjs) + 1
             /\ pc' = "agent"
             /\ UNCHANGED <<image_path, url, css_selector, agent, task, crew, result,
                            agentObjs, taskObjs, crewObjs, kickoffLog, io, env>>
          \/ /\ outcome = "raises"
             /\ Raise("ScrapeElementFromWebsiteTool")
             /\ UNCHANGED <<locals, heap, env, stdout>>

\* lines 19-25: agent = Agent(...)
ScrapeAgent ==
    /\ variant = "scrape" /\ pc = "agent"
    /\ \E outcome \in Outcomes :
          \/ /\ outcome = "returns"
             /\ agentObjs' = Append(agentObjs, NewScrapeAgent(url, css_selector, tool))
             /\ agent' = Len(agentObjs) + 1
             /\ pc' = "task"
             /\ UNCHANGED <<image_path, url, css_selector, tool, task, crew, result,
                            toolObjs, taskObjs, crewObjs, kickoffLog, io, env>>
          \/ /\ outcome = "raises"
             /\ Raise("Agent")
             /\ UNCHANGED <<locals, heap, env, stdout>>

\* lines 27-31: task = Task(...)
ScrapeTask ==
    /\ variant = "scrape" /\ pc = "task"
    /\ \E outcome \in Outcomes :
          \/ /\ outcome = "returns"
             /\ taskObjs' = Append(taskObjs, NewScrapeTask(url, css_selector, agent))
             /\ task' = Len(taskObjs) + 1
             /\ pc' = "crew"
             /\ UNCHANGED <<image_path, url, css_selector, tool, agent, crew, result,
                            toolObjs, agentObjs, crewObjs, kickoffLog, io, env>>
          \/ /\ outcome = "raises"
             /\ Raise("Task")
             /\ UNCHANGED <<locals, heap, env, stdout>>

\* line 33: crew = Crew(agents=[agent], tasks=[task])
ScrapeCrew ==
    /\ variant = "scrape" /\ pc = "crew"
    /\ \E outcome \in Outcomes :
          \/ /\ outcome = "returns"
             /\ crewObjs' = Append(crewObjs, NewScrapeCrew(agent, task))
             /\ crew' = Len(crewObjs) + 1
             /\ pc' = "kickoff"
             /\ UNCHANGED <<image_path, url, css_selector, tool, agent, task, result,
                            toolObjs, agentObjs, taskObjs, kickoffLog, io, env>>
          \/ /\ outcome = "raises"
             /\ Raise("Crew")
             /\ UNCHANGED <<locals, heap, env, stdout>>

\* Faulty variant of ScrapeKickoff: after a first failure the run goes back
\* to call kickoff again.
ScrapeKickoff_RetryLoop ==
    /\ variant = "scrape" /\ pc = "kickoff"
    /\ kickoffLog' = Append(kickoffLog, crew)
    /\ \/ /\ \E r \in Results : result' = r
          /\ pc' = "print"
          /\ UNCHANGED <<image_path, url, css_selector, tool, agent, task, crew,
                         toolObjs, agentObjs, taskObjs, crewObjs, io, env>>
       \/ /\ kickoffLog = <<>>
          /\ pc' = "kickoff"
          /\ UNCHANGED <<locals, toolObjs, agentObjs, taskObjs, crewObjs, env, io>>
       \/ /\ kickoffLog # <<>>
          /\ Raise("kickoff")
          /\ UNCHANGED <<locals, toolObjs, agentObjs, taskObjs, crewObjs, env, stdout>>

\* line 34: result = crew.kickoff()
ScrapeKickoff ==
    /\ variant = "scrape" /\ pc = "kickoff"
    /\ kickoffLog' = Append(kickoffLog, crew)
    /\ \/ /\ \E r \in Results : result' = r
          /\ pc' = "print"
          /\ UNCHANGED <<image_path, url, css_selector, tool, agent, task, crew,
                         toolObjs, agentObjs, taskObjs, crewObjs, io, env>>
       \/ /\ Raise("kickoff")
          /\ UNCHANGED <<locals, toolObjs, agentObjs, taskObjs, crewObjs, env, stdout>>

\* line 35: print(result.strip()), then main() returns
ScrapePrint ==
    /\ variant = "scrape" /\ pc = "print"
    /\ PyPrint(Strip(result))
    /\ ReturnFromMain
    /\ UNCHANGED <<locals, heap, env, stderr, raised>>

----------------------------------------------------------------------------
\* role, goal and backstory of the Agent this run constructed, tagged with the script
AgentDescriptor ==
    IF agent = 0 THEN {}
    ELSE {<<variant, agentObjs[agent].role, agentObjs[agent].goal,
            agentObjs[agent].backstory>>}

\* The process has ended: nothing of the run is kept.  Its Agent's descriptor
\* is remembered for comparison across runs.
ProcessEnd ==
    /\ pc = "exit"
    /\ prev_agent' = IF agent = 0 THEN prev_agent ELSE AgentDescriptor
    /\ pc' = "ended"
    /\ image_path' = <<>> /\ url' = <<>> /\ css_selector' = <<>>
    /\ tool' = 0 /\ agent' = 0 /\ task' = 0 /\ crew' = 0
    /\ result' = <<>>
    /\ toolObjs' = <<>> /\ agentObjs' = <<>> /\ taskObjs' = <<>> /\ crewObjs' = <<>>
    /\ kickoffLog' = <<>>
    /\ stdout' = <<>> /\ stderr' = <<>>
    /\ exitCode' = Running
    /\ raised' = NoCall
    /\ UNCHANGED <<variant, sys_argv>>

\* One of the scripts is started again, as a fresh process with its own arguments.
Reinvoke ==
    /\ pc = "ended"
    /\ \E v \in Variants, args \in ArgLists :
          /\ variant' = v
          /\ sys_argv' = ScriptName(v) \o args
    /\ pc' = "parse"
    /\ UNCHANGED <<locals, heap, io, prev_agent>>

Next ==
    \/ VisionParse \/ VisionBind \/ VisionAgent \/ VisionTask
    \/ VisionCrew \/ VisionKickoff \/ VisionPrint
    \/ ScrapeParse \/ ScrapeBind \/ ScrapeAgent \/ ScrapeTask
    \/ ScrapeCrew \/ ScrapeKickoff \/ ScrapePrint

\* one process run of either script
Spec == Init /\ [][Next]_vars

NextRuns == Next \/ ProcessEnd \/ Reinvoke

\* process runs one after another
SpecRuns == Init /\ [][NextRuns]_vars

----------------------------------------------------------------------------
(* Vocabulary of the properties *)

NumPositional == Len(sys_argv) - 1

IsInfix(x, s) ==
    \E i \in 0..(Len(s) - Len(x)) : SubSeq(s, i + 1, i + Len(x)) = x

NothingConstructed ==
    /\ toolObjs = <<>> /\ agentObjs = <<>> /\ taskObjs = <<>> /\ crewObjs = <<>>
    /\ kickoffLog = <<>>

ToolConstructors == {"VisionTool", "ScrapeElementFromWebsiteTool"}

\* the stage of the five-stage pipeline the run is in
Stage ==
    CASE pc = "parse" -> "Parsing"
      [] pc = "bind" -> "Binding"
      [] pc \in {"agent", "task"} -> "Describing"
      [] pc \in {"crew", "kickoff"} -> "Executing"
      [] pc = "print" -> "Printing"
      [] pc = "exit" -> IF exitCode = 0 THEN "Succeeded" ELSE "Failed"
      [] OTHER -> "Ended"

PcRank ==
    CASE pc = "parse" -> 1
      [] pc = "bind" -> 2
      [] pc = "agent" -> 3
      [] pc = "task" -> 4
      [] pc = "crew" -> 5
      [] pc = "kickoff" -> 6
      [] pc = "print" -> 7
      [] OTHER -> 8

----------------------------------------------------------------------------
\* C1: with fewer positional arguments than required (vision: none; scrape:
\* none or one) the run prints the usage message, exits with status 1, and
\* constructs no tool, agent, task or crew and makes no kickoff call; such a
\* run is never anywhere but at the argument check or at its exit.
C1_UsageExit ==
    LET short == \/ variant = "vision" /\ NumPositional = 0
                 \/ variant = "scrape" /\ NumPositional \in {0, 1}
        usage == IF variant = "vision" THEN VisionUsage ELSE ScrapeUsage
    IN  short =>
          /\ NothingConstructed
          /\ pc \in {"parse", "exit"}
          /\ pc = "exit" =>
                /\ stdout = usage \o <<"\n">>
                /\ exitCode = 1
                /\ raised = NoCall

C1_Witness ==
    /\ variant = "scrape" /\ NumPositional = 1
    /\ pc = "exit" /\ exitCode = 1 /\ stdout # <<>>

C3_KickoffFailure ==
    raised = "kickoff" =>
        /\ pc = "exit"
        /\ exitCode = 1
        /\ stdout = <<>>
        /\ result = <<>>
        /\ Len(kickoffLog) = 1

C3_Witness == raised = "kickoff" /\ variant = "scrape" /\ pc = "exit"

\* C4 as stated: a terminated run has either a non-empty text on standard
\* output and status 0, or a diagnostic and a non-zero status.
C4_NeverSilentEmpty ==
    pc = "exit" =>
        \/ exitCode = 0 /\ stdout \notin {<<>>, <<"\n">>}
        \/ exitCode # 0 /\ (stdout # <<>> \/ stderr # <<>>)

\* C5 as stated: every step moves forward in the order of the stages, and
\* the Failed state is entered only from Parsing or from Executing.
C5_FailedOnlyFromParsingOrExecuting ==
    [][/\ PcRank' > PcRank
       /\ Stage' = "Failed" => Stage \in {"Parsing", "Executing"}]_vars

\* C5 amended: every step moves strictly forward through parse, bind, agent,
\* task, crew, kickoff, print, exit (no stage twice, no cycle, no retry);
\* Failed is entered from Parsing exactly on an argument-count failure, and
\* from Binding, Describing or Executing exactly when the library call made
\* there raises; it is never entered from Printing.
C5_ForwardOnly ==
    [][/\ PcRank' > PcRank
       /\ Stage' = "Failed" =>
             \/ /\ Stage = "Parsing"
                /\ raised' = NoCall
                /\ NumPositional < (IF variant = "vision" THEN 1 ELSE 2)
             \/ /\ Stage = "Binding"
                /\ raised' \in ToolConstructors
             \/ /\ Stage = "Describing"
                /\ raised' \in {"Agent", "Task"}
             \/ /\ Stage = "Executing"
                /\ raised' \in {"Crew", "kickoff"}
       /\ Stage = "Printing" => Stage' = "Succeeded"]_vars

C5_Witness == pc = "exit" /\ exitCode = 1 /\ raised = "Task"

\* C6: when the tool constructor raises, the run is over at once with a
\* non-zero exit status and the traceback on standard error, and no tool,
\* agent, task or crew exists and no kickoff call was made.
C6_BindingErrorPropagates ==
    raised \in ToolConstructors =>
        /\ pc = "exit"
        /\ exitCode # 0
        /\ stderr = Traceback
        /\ stdout = <<>>
        /\ NothingConstructed

C6_Witness == raised = "ScrapeElementFromWebsiteTool" /\ pc = "exit"

\* C7: in a scrape run with two positional arguments, the tool constructed
\* carries the first argument as website_url and the second as css_element,
\* exactly as they were given.
C7_ArgumentsUnchanged ==
    (variant = "scrape" /\ NumPositional = 2 /\ toolObjs # <<>>) =>
        /\ Len(toolObjs) = 1
        /\ toolObjs[1].cls = "ScrapeElementFromWebsiteTool"
        /\ toolObjs[1].kwargs =
              {<<"website_url", sys_argv[2]>>, <<"css_element", sys_argv[3]>>}

C7_Witness ==
    /\ variant = "scrape" /\ NumPositional = 2 /\ toolObjs # <<>>
    /\ sys_argv[2] = <<" ">> /\ sys_argv[3] = <<"A">>

\* C8: after a successful run, standard output is one line: a slice of the
\* result that begins and ends with a non-whitespace character (or is empty),
\* with only whitespace before and after it in the result, followed by one
\* line break; for the result "  Hello World  \n" it is "Hello World\n".
C8_PrintsStrippedResult ==
    (pc = "exit" /\ exitCode = 0) =>
        /\ stdout # <<>>
        /\ stdout[Len(stdout)] = "\n"
        /\ LET out == SubSeq(stdout, 1, Len(stdout) - 1)
           IN  /\ \E i \in 1..(Len(result) + 1) :
                     /\ out = SubSeq(result, i, i + Len(out) - 1)
                     /\ i + Len(out) - 1 <= Len(result)
                     /\ \A k \in 1..(i - 1) : result[k] \in Whitespace
                     /\ \A k \in (i + Len(out))..Len(result) : result[k] \in Whitespace
               /\ out # <<>> =>
                     /\ out[1] \notin Whitespace
                     /\ out[Len(out)] \notin Whitespace
        /\ result = HelloWorldResult =>
              stdout = <<"H", "e", "l", "l", "o", " ", "W", "o", "r", "l", "d", "\n">>

C8_Witness ==
    /\ pc = "exit" /\ exitCode = 0
    /\ result = HelloWorldResult
    /\ Len(stdout) = 12

C10_SingleAgentSingleTask ==
    \A i \in 1..Len(kickoffLog) :
        /\ kickoffLog[i] \in 1..Len(crewObjs)
        /\ LET c == crewObjs[kickoffLog[i]]
           IN  /\ Len(c.agents) = 1
               /\ Len(c.tasks) = 1
               /\ c.agents[1] \in 1..Len(agentObjs)
               /\ c.tasks[1] \in 1..Len(taskObjs)
               /\ taskObjs[c.tasks[1]].agent = c.agents[1]
               /\ Len(agentObjs[c.agents[1]].tools) = 1
               /\ agentObjs[c.agents[1]].tools[1] = tool
               /\ Len(toolObjs) = 1
               /\ tool = 1

C10_Witness == kickoffLog # <<>> /\ variant = "scrape" /\ pc = "print"

====
